---- MODULE Spec2Model ----
(***************************************************************************)
(* Model of the bitcoin capital gains calculator (src/src/main.py):        *)
(* the Transaction model (Buy / Sell construction, price, split), the      *)
(* CapitalGain duration classifier and the matcher match_capital_gains     *)
(* with its helpers has_sell, next_sell_index, extract_sell, split_sell.   *)
(*                                                                         *)
(* Amounts.  The code keeps btc and usd as decimal.Decimal.  Here a btc    *)
(* amount is an integer number of BTC and a usd amount an integer number   *)
(* of units of 0.00005 USD, so that the tolerance 0.0001 USD of split is 2 *)
(* units.  Inputs are drawn so that every quotient usd / btc the code      *)
(* forms is an integer number of units per BTC; on such amounts Decimal    *)
(* division, multiplication and subtraction are exact (no rounding at the  *)
(* 28 significant digits of the decimal context), and integer arithmetic   *)
(* gives the same values.  ExactAmounts states that the run never leaves   *)
(* that domain.  Decimal keeps the sign of a zero: a usd of negative zero  *)
(* is the amount 0 with the field usd_neg_zero set; it compares equal to   *)
(* zero and prints with a minus sign.  A btc of zero is a positive zero    *)
(* (the amounts handed in are, and no operation of the code makes a        *)
(* negative one out of them).                                              *)
(*                                                                         *)
(* Timestamps are records [year, month, day, tod], tod being the time of   *)
(* day (hour, minute, second, microsecond) as one number; all timestamps   *)
(* share one tzinfo.                                                       *)
(***************************************************************************)
EXTENDS Integers, Sequences, FiniteSets, TLC

\* ------------------------------------------------------------------ bounds
\* longest transaction list handed to match_capital_gains
MaxTx == 3
\* largest btc magnitude of an enumerated transaction
MaxBtc == 3
\* unit prices (usd units per BTC) of the enumerated transactions
Prices == {1, 3}
\* usd magnitudes of the enumerated zero-btc transactions
ZeroBtcUsd == {0, 3}
\* split magnitudes tried by the split harness reach MaxBtc + SplitSlack
SplitSlack == 1
\* calendar years of the timestamps tried by the duration harness
MinYear == 2019
MaxYear == 2021
\* largest time of day tried by the duration harness
MaxTod == 1
\* largest usd magnitude tried by the constructor harness
MaxUsd == 3
\* longest list of gains handed to tabulate
MaxGains == 3
\* longest list of the runs followed to their end
MaxLiveTx == 3
\* btc magnitudes of the transactions of the runs followed to their end: a
\* transaction of zero btc, a lot taken whole and a lot that can be cut
LiveBtc == {0, 1, 2}

\* ------------------------------------------------------- program constants
\* Decimal("0.0001") in units of 0.00005 USD
DustTol == 2

\* ---------------------------------------------------------------- helpers
Abs(n) == IF n < 0 THEN -n ELSE n

\* the value None
None == "None"

\* ------------------------------------------------------------- timestamps
Timestamp(y, m, d, tod) == [year |-> y, month |-> m, day |-> d, tod |-> tod]

\* datetime.__lt__ for timestamps of one tzinfo
Before(a, b) ==
    \/ a.year < b.year
    \/ a.year = b.year /\ a.month < b.month
    \/ a.year = b.year /\ a.month = b.month /\ a.day < b.day
    \/ a.year = b.year /\ a.month = b.month /\ a.day = b.day /\ a.tod < b.tod

IsLeap(y) == (y % 4 = 0 /\ y % 100 # 0) \/ y % 400 = 0

DaysInMonth(y, m) ==
    IF m = 2 THEN (IF IsLeap(y) THEN 29 ELSE 28)
    ELSE IF m \in {4, 6, 9, 11} THEN 30 ELSE 31

\* the range check of the datetime constructor (ValueError outside it)
ValidDate(y, m, d) ==
    /\ y >= 1 /\ y <= 9999
    /\ m >= 1 /\ m <= 12
    /\ d >= 1 /\ d <= DaysInMonth(y, m)

\* ----------------------------------------------------------- transactions
\* the sign bit of a usd amount u; neg_zero tells the sign of a zero
SignBit(u, neg_zero) == u < 0 \/ (u = 0 /\ neg_zero)

\* Transaction.__init__: the three stored fields (kind is the class);
\* Decimal(str(usd)) keeps the sign of a zero
Transaction(kind, timestamp, b, u, neg_zero) ==
    [kind |-> kind, timestamp |-> timestamp, btc |-> b, usd |-> u,
     usd_neg_zero |-> (u = 0 /\ neg_zero)]

\* Buy.__init__: the constructed Buy, or the ValueError it raises
Buy(timestamp, b, u, neg_zero) ==
    IF b < 0
    THEN [raised |-> "ValueError",
          msg |-> "BTC value must be positive for a buy", tx |-> <<>>]
    ELSE IF u > 0
    THEN [raised |-> "ValueError",
          msg |-> "USD value must be negative for a buy", tx |-> <<>>]
    ELSE [raised |-> None, msg |-> None,
          tx |-> <<Transaction("Buy", timestamp, b, u, neg_zero)>>]

\* Sell.__init__ with the bug of checking usd before btc
Sell_usd_first(timestamp, b, u, neg_zero) ==
    IF u < 0
    THEN [raised |-> "ValueError",
          msg |-> "USD value must be positive for a sell", tx |-> <<>>]
    ELSE IF b > 0
    THEN [raised |-> "ValueError",
          msg |-> "BTC value must be negative for a sell", tx |-> <<>>]
    ELSE [raised |-> None, msg |-> None,
          tx |-> <<Transaction("Sell", timestamp, b, u, neg_zero)>>]

\* Sell.__init__: the constructed Sell, or the ValueError it raises
Sell(timestamp, b, u, neg_zero) ==
    IF b > 0
    THEN [raised |-> "ValueError",
          msg |-> "BTC value must be negative for a sell", tx |-> <<>>]
    ELSE IF u < 0
    THEN [raised |-> "ValueError",
          msg |-> "USD value must be positive for a sell", tx |-> <<>>]
    ELSE [raised |-> None, msg |-> None,
          tx |-> <<Transaction("Sell", timestamp, b, u, neg_zero)>>]

\* type(self)(...): the constructor of the class of a transaction
Construct(kind, timestamp, b, u, neg_zero) ==
    IF kind = "Buy"
    THEN Buy(timestamp, b, u, neg_zero)
    ELSE Sell(timestamp, b, u, neg_zero)

\* Decimal division a / b for b # 0 on amounts whose quotient is exact
Quotient(a, b) == IF b < 0 THEN (-a) \div (-b) ELSE a \div b

\* the exception Decimal division by zero raises
DivisionError(a) == IF a = 0 THEN "InvalidOperation" ELSE "DivisionByZero"

\* Transaction.price: [raised, value, neg_zero]; the sign of a zero quotient
\* is negative when the signs of usd and btc differ
price(t) ==
    IF t.btc = 0
    THEN [raised |-> DivisionError(t.usd), value |-> 0, neg_zero |-> FALSE]
    ELSE [raised |-> None, value |-> Quotient(t.usd, t.btc),
          neg_zero |-> (t.usd = 0
                          /\ (SignBit(t.usd, t.usd_neg_zero) # (t.btc < 0)))]

\* Transaction.split with the bug of subtracting the magnitude of split_btc
split_unsigned_remainder(t, split_btc) ==
    IF price(t).raised # None
    THEN [raised |-> price(t).raised, frags |-> <<>>]
    ELSE
      LET split_usd      == split_btc * price(t).value
          split_neg_zero == (split_btc < 0)
                              # SignBit(price(t).value, price(t).neg_zero)
          remainder_btc  == t.btc - Abs(split_btc)
          residual_usd   == t.usd - split_usd
          remainder_usd  == IF Abs(residual_usd) <= DustTol
                            THEN 0 ELSE residual_usd
          first  == Construct(t.kind, t.timestamp, split_btc, split_usd,
                              split_neg_zero)
          second == Construct(t.kind, t.timestamp, remainder_btc,
                              remainder_usd, FALSE)
      IN  IF first.raised # None
          THEN [raised |-> first.raised, frags |-> <<>>]
          ELSE IF second.raised # None
          THEN [raised |-> second.raised, frags |-> <<>>]
          ELSE [raised |-> None, frags |-> <<first.tx[1], second.tx[1]>>]

\* Transaction.split with the bug of multiplying by usd instead of price
split_total_usd(t, split_btc) ==
    IF price(t).raised # None
    THEN [raised |-> price(t).raised, frags |-> <<>>]
    ELSE
      LET split_usd      == split_btc * t.usd
          split_neg_zero == (split_btc < 0)
                              # SignBit(price(t).value, price(t).neg_zero)
          remainder_btc  == t.btc - split_btc
          residual_usd   == t.usd - split_usd
          remainder_usd  == IF Abs(residual_usd) <= DustTol
                            THEN 0 ELSE residual_usd
          first  == Construct(t.kind, t.timestamp, split_btc, split_usd,
                              split_neg_zero)
          second == Construct(t.kind, t.timestamp, remainder_btc,
                              remainder_usd, FALSE)
      IN  IF first.raised # None
          THEN [raised |-> first.raised, frags |-> <<>>]
          ELSE IF second.raised # None
          THEN [raised |-> second.raised, frags |-> <<>>]
          ELSE [raised |-> None, frags |-> <<first.tx[1], second.tx[1]>>]

\* Transaction.split with the bug of a tolerance of 0.001
split_wide_tolerance(t, split_btc) ==
    IF price(t).raised # None
    THEN [raised |-> price(t).raised, frags |-> <<>>]
    ELSE
      LET split_usd      == split_btc * price(t).value
          split_neg_zero == (split_btc < 0)
                              # SignBit(price(t).value, price(t).neg_zero)
          remainder_btc  == t.btc - split_btc
          residual_usd   == t.usd - split_usd
          remainder_usd  == IF Abs(residual_usd) <= 10 * DustTol
                            THEN 0 ELSE residual_usd
          first  == Construct(t.kind, t.timestamp, split_btc, split_usd,
                              split_neg_zero)
          second == Construct(t.kind, t.timestamp, remainder_btc,
                              remainder_usd, FALSE)
      IN  IF first.raised # None
          THEN [raised |-> first.raised, frags |-> <<>>]
          ELSE IF second.raised # None
          THEN [raised |-> second.raised, frags |-> <<>>]
          ELSE [raised |-> None, frags |-> <<first.tx[1], second.tx[1]>>]

\* Transaction.split with the bug of a strict comparison with the tolerance
split_strict_tolerance(t, split_btc) ==
    IF price(t).raised # None
    THEN [raised |-> price(t).raised, frags |-> <<>>]
    ELSE
      LET split_usd      == split_btc * price(t).value
          split_neg_zero == (split_btc < 0)
                              # SignBit(price(t).value, price(t).neg_zero)
          remainder_btc  == t.btc - split_btc
          residual_usd   == t.usd - split_usd
          remainder_usd  == IF Abs(residual_usd) < DustTol
                            THEN 0 ELSE residual_usd
          first  == Construct(t.kind, t.timestamp, split_btc, split_usd,
                              split_neg_zero)
          second == Construct(t.kind, t.timestamp, remainder_btc,
                              remainder_usd, FALSE)
      IN  IF first.raised # None
          THEN [raised |-> first.raised, frags |-> <<>>]
          ELSE IF second.raised # None
          THEN [raised |-> second.raised, frags |-> <<>>]
          ELSE [raised |-> None, frags |-> <<first.tx[1], second.tx[1]>>]

\* Transaction.split(split_btc), split_btc signed like self.btc:
\* [raised, frags], frags = <<split, remainder>> when nothing is raised
split(t, split_btc) ==
    IF price(t).raised # None
    THEN [raised |-> price(t).raised, frags |-> <<>>]
    ELSE
      LET split_usd      == split_btc * price(t).value
          split_neg_zero == (split_btc < 0)
                              # SignBit(price(t).value, price(t).neg_zero)
          remainder_btc  == t.btc - split_btc
          residual_usd   == t.usd - split_usd
          remainder_usd  == IF Abs(residual_usd) <= DustTol
                            THEN 0 ELSE residual_usd
          first  == Construct(t.kind, t.timestamp, split_btc, split_usd,
                              split_neg_zero)
          second == Construct(t.kind, t.timestamp, remainder_btc,
                              remainder_usd, FALSE)
      IN  IF first.raised # None
          THEN [raised |-> first.raised, frags |-> <<>>]
          ELSE IF second.raised # None
          THEN [raised |-> second.raised, frags |-> <<>>]
          ELSE [raised |-> None, frags |-> <<first.tx[1], second.tx[1]>>]

\* -------------------------------------------------------------- durations
\* Duration.SHORT.value and Duration.LONG.value
SHORT == "Short"
LONG == "Long"

\* CapitalGain.__init__
CapitalGain(b, s) == [buy |-> b, sell |-> s]

\* CapitalGain.duration: SHORT, LONG, or the ValueError of datetime(...)
duration(gain) ==
    LET sts == gain.sell.timestamp
        adjusted_sell_timestamp ==
            Timestamp(sts.year - 1, sts.month, sts.day, sts.tod)
    IN  IF ~ValidDate(sts.year - 1, sts.month, sts.day)
        THEN [raised |-> "ValueError", value |-> None]
        ELSE IF Before(gain.buy.timestamp, adjusted_sell_timestamp)
        THEN [raised |-> None, value |-> LONG]
        ELSE [raised |-> None, value |-> SHORT]

\* ------------------------------------------------------------ Python lists
\* a list index counted from the end when negative
NormIndex(i, n) == IF i < 0 THEN i + n ELSE i

\* list.pop(i) raises IndexError
PopRaises(l, i) ==
    NormIndex(i, Len(l)) < 0 \/ NormIndex(i, Len(l)) >= Len(l)

\* the item list.pop(i) returns
PopItem(l, i) == l[NormIndex(i, Len(l)) + 1]

\* the list list.pop(i) leaves
PopRest(l, i) ==
    LET k == NormIndex(i, Len(l))
    IN  [j \in 1..(Len(l) - 1) |-> IF j <= k THEN l[j] ELSE l[j + 1]]

\* the list list.insert(i, x) leaves
ListInsert(l, i, x) ==
    LET n == Len(l)
        k0 == NormIndex(i, n)
        k == IF k0 < 0 THEN 0 ELSE IF k0 > n THEN n ELSE k0
    IN  SubSeq(l, 1, k) \o <<x>> \o SubSeq(l, k + 1, n)

IsSell(t) == t.kind = "Sell"
IsBuy(t) == t.kind = "Buy"

RECURSIVE SumBtc(_)
\* sum(t.btc for t in l)
SumBtc(l) == IF l = <<>> THEN 0 ELSE l[1].btc + SumBtc(Tail(l))

RECURSIVE SumUsd(_)
\* sum(t.usd for t in l)
SumUsd(l) == IF l = <<>> THEN 0 ELSE l[1].usd + SumUsd(Tail(l))

\* ---------------------------------------------------------------- matcher
\* has_sell
has_sell(txs) == \E i \in 1..Len(txs) : IsSell(txs[i])

\* next_sell_index with the bug of returning the index of the last Sell
next_sell_index_last(txs) ==
    IF has_sell(txs)
    THEN (CHOOSE i \in 1..Len(txs) :
            IsSell(txs[i]) /\ \A j \in (i + 1)..Len(txs) : ~IsSell(txs[j])) - 1
    ELSE None

\* next_sell_index: the 0-based index of the first Sell, or None
next_sell_index(txs) ==
    IF has_sell(txs)
    THEN (CHOOSE i \in 1..Len(txs) :
            IsSell(txs[i]) /\ \A j \in 1..(i - 1) : ~IsSell(txs[j])) - 1
    ELSE None

\* the assert of match_capital_gains: sell_vol < buy_vol
VolumeCheck(txs) ==
    LET sell_vol == SumBtc(SelectSeq(txs, IsSell))
        buy_vol == SumBtc(SelectSeq(txs, IsBuy))
    IN  sell_vol < buy_vol

\* ExtractIter with the bug of not stepping back after a lot consumed whole
ExtractIter_forward(txs, bi, need, bs) ==
    IF PopRaises(txs, bi)
    THEN [raised |-> "IndexError", transactions |-> txs,
          buy_index |-> bi, btc |-> need, buys |-> bs]
    ELSE
      LET pbuy == PopItem(txs, bi)
          rest == PopRest(txs, bi)
      IN  IF need < pbuy.btc
          THEN LET r == split(pbuy, need)
               IN  IF r.raised # None
                   THEN [raised |-> r.raised, transactions |-> rest,
                         buy_index |-> bi, btc |-> need, buys |-> bs]
                   ELSE [raised |-> None,
                         transactions |-> ListInsert(rest, bi, r.frags[2]),
                         buy_index |-> bi,
                         btc |-> need - r.frags[1].btc,
                         buys |-> Append(bs, r.frags[1])]
          ELSE [raised |-> None, transactions |-> rest,
                buy_index |-> bi,
                btc |-> need - pbuy.btc,
                buys |-> Append(bs, pbuy)]

\* ExtractIter with the bug of not putting the remainder of a cut lot back
ExtractIter_drops_remainder(txs, bi, need, bs) ==
    IF PopRaises(txs, bi)
    THEN [raised |-> "IndexError", transactions |-> txs,
          buy_index |-> bi, btc |-> need, buys |-> bs]
    ELSE
      LET pbuy == PopItem(txs, bi)
          rest == PopRest(txs, bi)
      IN  IF need < pbuy.btc
          THEN LET r == split(pbuy, need)
               IN  IF r.raised # None
                   THEN [raised |-> r.raised, transactions |-> rest,
                         buy_index |-> bi, btc |-> need, buys |-> bs]
                   ELSE [raised |-> None,
                         transactions |-> rest,
                         buy_index |-> bi,
                         btc |-> need - r.frags[1].btc,
                         buys |-> Append(bs, r.frags[1])]
          ELSE [raised |-> None, transactions |-> rest,
                buy_index |-> bi - 1,
                btc |-> need - pbuy.btc,
                buys |-> Append(bs, pbuy)]

\* one pass of the while loop of extract_sell, entered with btc # 0:
\* the exception raised, or the changed locals and list
ExtractIter(txs, bi, need, bs) ==
    IF PopRaises(txs, bi)
    THEN [raised |-> "IndexError", transactions |-> txs,
          buy_index |-> bi, btc |-> need, buys |-> bs]
    ELSE
      LET pbuy == PopItem(txs, bi)
          rest == PopRest(txs, bi)
      IN  IF need < pbuy.btc
          THEN LET r == split(pbuy, need)
               IN  IF r.raised # None
                   THEN [raised |-> r.raised, transactions |-> rest,
                         buy_index |-> bi, btc |-> need, buys |-> bs]
                   ELSE [raised |-> None,
                         transactions |-> ListInsert(rest, bi, r.frags[2]),
                         buy_index |-> bi,
                         btc |-> need - r.frags[1].btc,
                         buys |-> Append(bs, r.frags[1])]
          ELSE [raised |-> None, transactions |-> rest,
                buy_index |-> bi - 1,
                btc |-> need - pbuy.btc,
                buys |-> Append(bs, pbuy)]

RECURSIVE SplitSellLoop(_, _, _)
\* the for loop of split_sell: [raised, sells]; r is the result of the one
\* call of split the pass makes
SplitSellLoop(s, bs, sells) ==
    IF bs = <<>>
    THEN [raised |-> None, sells |-> sells]
    ELSE CHOOSE out \in
           { IF r.raised # None
             THEN [raised |-> r.raised, sells |-> <<>>]
             ELSE SplitSellLoop(r.frags[2], Tail(bs),
                                Append(sells, r.frags[1]))
               : r \in {split(s, -bs[1].btc)} } : TRUE

\* split_sell with the bug of walking the buys back to front
split_sell_reversed(s, bs) ==
    IF s.btc # -SumBtc(bs)
    THEN [raised |-> "AssertionError", sells |-> <<>>]
    ELSE SplitSellLoop(s, [i \in 1..Len(bs) |-> bs[Len(bs) + 1 - i]], <<>>)

\* split_sell: [raised, sells]
split_sell(s, bs) ==
    IF s.btc # -SumBtc(bs)
    THEN [raised |-> "AssertionError", sells |-> <<>>]
    ELSE SplitSellLoop(s, bs, <<>>)

\* [CapitalGain(b, s) for b, s in zip(buys, sells)]
ZipGains(bs, sells) ==
    [i \in 1..(IF Len(bs) < Len(sells) THEN Len(bs) ELSE Len(sells))
        |-> CapitalGain(bs[i], sells[i])]

\* ------------------------------------------------------------------ inputs
\* usd units in one USD: 0.0001 USD is DustTol units
UnitsPerUsd == 10000 * DustTol

\* the timestamps of the transactions of test_match_capital_gains; the i-th
\* transaction of an enumerated list carries the i-th of them, so every
\* enumerated list is in chronological order (main sorts by timestamp)
Calendar ==
    << Timestamp(2020, 1, 1, 0), Timestamp(2020, 6, 1, 0),
       Timestamp(2021, 1, 1, 0), Timestamp(2021, 6, 1, 0),
       Timestamp(2022, 1, 1, 0), Timestamp(2023, 6, 1, 0) >>

\* (btc, usd) magnitudes of the enumerated transactions
Amounts ==
    {<<b, b * p>> : b \in 1..MaxBtc, p \in Prices}
        \cup {<<0, u>> : u \in ZeroBtcUsd}

\* the enumerated transactions but for their timestamp
Payloads ==
    {[kind |-> "Buy", btc |-> a[1], usd |-> -a[2]] : a \in Amounts}
        \cup {[kind |-> "Sell", btc |-> -a[1], usd |-> a[2]] : a \in Amounts}

\* the list of the enumerated transactions f[1], ..., f[n], in this order
TxList(f, n) ==
    [i \in 1..n |-> Transaction(f[i].kind, Calendar[i], f[i].btc, f[i].usd, FALSE)]

\* the transaction list of test_match_capital_gains
TestScenario ==
    << Transaction("Buy",  Calendar[1],  20, -20 * UnitsPerUsd, FALSE),
       Transaction("Sell", Calendar[2],  -5,  50 * UnitsPerUsd, FALSE),
       Transaction("Buy",  Calendar[3],  10, -10 * UnitsPerUsd, FALSE),
       Transaction("Sell", Calendar[4], -15, 150 * UnitsPerUsd, FALSE),
       Transaction("Buy",  Calendar[5],  10, -10 * UnitsPerUsd, FALSE),
       Transaction("Sell", Calendar[6], -10, 100 * UnitsPerUsd, FALSE) >>

\* the transaction list of test_extract_sell, on the four days of the test,
\* with its btc and usd amounts doubled (btc is counted in whole BTC here,
\* and the Sell of the test is of 1.5 BTC)
ExtractScenario ==
    << Transaction("Buy",  Timestamp(2020, 1, 1, 0),  2, -2 * UnitsPerUsd,
                   FALSE),
       Transaction("Buy",  Timestamp(2020, 1, 2, 0),  2, -2 * UnitsPerUsd,
                   FALSE),
       Transaction("Sell", Timestamp(2020, 1, 3, 0), -3, 30 * UnitsPerUsd,
                   FALSE),
       Transaction("Buy",  Timestamp(2020, 1, 4, 0),  2, -2 * UnitsPerUsd,
                   FALSE) >>

\* ------------------------------------------------------------------- state
VARIABLES
    input,          \* the list as passed to match_capital_gains
    transactions,   \* the caller's list, mutated in place
    pc,             \* position of the run of match_capital_gains
    sell,           \* extract_sell: <<the popped Sell>>, <<>> before
    buys,           \* extract_sell: the matched lots so far
    btc,            \* extract_sell: the btc still to be matched
    buy_index,      \* extract_sell: index of the next lot to pop
    cap_gains,      \* match_capital_gains: the gains so far
    outcome,        \* "running", "returned", or the exception raised
    call,           \* harnesses: the call made, [op, ...]
    ret,            \* harnesses: <<>> before the call, <<its result>> after
    table,          \* tabulate: the table under construction
    gain_no         \* tabulate: position of the for loop in cap_gains

vars == <<input, transactions, pc, sell, buys, btc, buy_index, cap_gains,
          outcome, call, ret, table, gain_no>>

tab_vars == <<table, gain_no>>

matcher_vars == <<input, transactions, pc, sell, buys, btc, buy_index,
                  cap_gains, outcome>>

\* the matcher state of the harnesses, where no run takes place
MatcherIdle ==
    /\ input = <<>>
    /\ transactions = <<>>
    /\ pc = "idle"
    /\ sell = <<>>
    /\ buys = <<>>
    /\ btc = 0
    /\ buy_index = 0
    /\ cap_gains = <<>>
    /\ outcome = "idle"
    /\ table = <<>>
    /\ gain_no = 0

\* ------------------------------------------- match_capital_gains, by steps
Init ==
    /\ \/ \E n \in 0..MaxTx : \E f \in [1..n -> Payloads] :
            input = TxList(f, n)
       \/ input = TestScenario
       \/ input = ExtractScenario
    /\ transactions = input
    /\ pc = "assert"
    /\ sell = <<>>
    /\ buys = <<>>
    /\ btc = 0
    /\ buy_index = 0
    /\ cap_gains = <<>>
    /\ outcome = "running"
    /\ call = [op |-> "match_capital_gains"]
    /\ ret = <<>>
    /\ table = <<>>
    /\ gain_no = 0

\* an exception leaves match_capital_gains
Raises(cls) ==
    /\ pc' = "done"
    /\ outcome' = cls

\* lines 314-319: the volumes, the assert, cap_gains = []
CheckVolumes ==
    /\ pc = "assert"
    /\ IF VolumeCheck(transactions)
       THEN pc' = "while" /\ outcome' = outcome
       ELSE Raises("AssertionError")
    /\ UNCHANGED <<input, transactions, sell, buys, btc, buy_index,
                   cap_gains, call, ret, tab_vars>>

\* BeginExtract with the bug of reading the Sell without popping it
BeginExtract_keeps_sell ==
    /\ pc = "while"
    /\ has_sell(transactions)
    /\ LET sell_index == next_sell_index(transactions)
       IN  /\ sell' = <<PopItem(transactions, sell_index)>>
           /\ transactions' = transactions
           /\ buy_index' = sell_index - 1
           /\ buys' = <<>>
           /\ btc' = -PopItem(transactions, sell_index).btc
    /\ pc' = "extract"
    /\ UNCHANGED <<input, cap_gains, outcome, call, ret, tab_vars>>

\* lines 321-323, 271-279: a Sell is left; extract_sell pops it (its assert
\* holds, sell_index being the index of a Sell)
BeginExtract ==
    /\ pc = "while"
    /\ has_sell(transactions)
    /\ LET sell_index == next_sell_index(transactions)
       IN  /\ sell' = <<PopItem(transactions, sell_index)>>
           /\ transactions' = PopRest(transactions, sell_index)
           /\ buy_index' = sell_index - 1
           /\ buys' = <<>>
           /\ btc' = -PopItem(transactions, sell_index).btc
    /\ pc' = "extract"
    /\ UNCHANGED <<input, cap_gains, outcome, call, ret, tab_vars>>

\* lines 281-292: one pass of the while loop of extract_sell
ExtractStep ==
    /\ pc = "extract"
    /\ btc # 0
    /\ LET r == ExtractIter(transactions, buy_index, btc, buys)
       IN  /\ transactions' = r.transactions
           /\ buy_index' = r.buy_index
           /\ btc' = r.btc
           /\ buys' = r.buys
           /\ IF r.raised # None
              THEN Raises(r.raised)
              ELSE pc' = pc /\ outcome' = outcome
    /\ UNCHANGED <<input, sell, cap_gains, call, ret, tab_vars>>

\* lines 294, 324-326: extract_sell returns, split_sell, cap_gains += ...
PairGains ==
    /\ pc = "extract"
    /\ btc = 0
    /\ LET r == split_sell(sell[1], buys)
       IN  IF r.raised # None
           THEN Raises(r.raised) /\ cap_gains' = cap_gains
           ELSE /\ cap_gains' = cap_gains \o ZipGains(buys, r.sells)
                /\ pc' = "while"
                /\ outcome' = outcome
    /\ UNCHANGED <<input, transactions, sell, buys, btc, buy_index,
                   call, ret, tab_vars>>

\* lines 321, 328: no Sell is left; return cap_gains
Return ==
    /\ pc = "while"
    /\ ~has_sell(transactions)
    /\ pc' = "done"
    /\ outcome' = "returned"
    /\ UNCHANGED <<input, transactions, sell, buys, btc, buy_index,
                   cap_gains, call, ret, tab_vars>>

Next == CheckVolumes \/ BeginExtract \/ ExtractStep \/ PairGains \/ Return

Spec == Init /\ [][Next]_vars

\* the transactions of the runs followed to their end: one unit price, btc
\* in LiveBtc, and the transactions of zero btc and zero usd
LivePayloads ==
    {[kind |-> "Buy", btc |-> b, usd |-> -b] : b \in LiveBtc}
        \cup {[kind |-> "Sell", btc |-> -b, usd |-> b] : b \in LiveBtc}

InitLive ==
    /\ \E n \in 0..MaxLiveTx : \E f \in [1..n -> LivePayloads] :
            input = TxList(f, n)
    /\ transactions = input
    /\ pc = "assert"
    /\ sell = <<>>
    /\ buys = <<>>
    /\ btc = 0
    /\ buy_index = 0
    /\ cap_gains = <<>>
    /\ outcome = "running"
    /\ call = [op |-> "match_capital_gains"]
    /\ ret = <<>>
    /\ table = <<>>
    /\ gain_no = 0

\* the run is not suspended: the interpreter takes a step of
\* match_capital_gains as long as one is left
SpecLive == InitLive /\ [][Next]_vars /\ WF_vars(Next)

\* the run is over and match_capital_gains returned cap_gains
Returned == pc = "done" /\ outcome = "returned"

\* the run is over and match_capital_gains raised
Failed == pc = "done" /\ outcome # "returned"

\* ---------------------------------------------------------------- harnesses
\* the transactions tried by the split harness: the enumerated ones and
\* those of nonzero btc and zero usd
SplitSubjects ==
    {Transaction("Buy", Calendar[1], a[1], -a[2], FALSE) : a \in Amounts}
      \cup {Transaction("Sell", Calendar[1], -a[1], a[2], FALSE) :
                a \in Amounts}
      \cup {Transaction("Buy", Calendar[1], b, 0, FALSE) : b \in 1..MaxBtc}
      \cup {Transaction("Sell", Calendar[1], -b, 0, FALSE) : b \in 1..MaxBtc}

\* t.split(split_btc) for the transactions and signed amounts in range
InitSplit ==
    /\ MatcherIdle
    /\ \E t \in SplitSubjects :
         \E x \in -(MaxBtc + SplitSlack)..(MaxBtc + SplitSlack) :
            call = [op |-> "split", t |-> t, split_btc |-> x]
    /\ ret = <<>>

CallSplit ==
    /\ call.op = "split"
    /\ ret = <<>>
    /\ ret' = <<split(call.t, call.split_btc)>>
    /\ UNCHANGED <<matcher_vars, call, tab_vars>>

NextSplit == CallSplit

SpecSplit == InitSplit /\ [][NextSplit]_vars

\* Buy(timestamp, btc, usd) and Sell(timestamp, btc, usd) for the amounts of
\* either sign in range
InitConstruct ==
    /\ MatcherIdle
    /\ \E k \in {"Buy", "Sell"} :
         \E b \in -MaxBtc..MaxBtc : \E u \in -MaxUsd..MaxUsd :
            call = [op |-> k, timestamp |-> Calendar[1], btc |-> b, usd |-> u]
    /\ ret = <<>>

CallBuy ==
    /\ call.op = "Buy"
    /\ ret = <<>>
    /\ ret' = <<Buy(call.timestamp, call.btc, call.usd, FALSE)>>
    /\ UNCHANGED <<matcher_vars, call, tab_vars>>

CallSell ==
    /\ call.op = "Sell"
    /\ ret = <<>>
    /\ ret' = <<Sell(call.timestamp, call.btc, call.usd, FALSE)>>
    /\ UNCHANGED <<matcher_vars, call, tab_vars>>

NextConstruct == CallBuy \/ CallSell

SpecConstruct == InitConstruct /\ [][NextConstruct]_vars

\* months and days of the timestamps tried by the duration harness
Months == {1, 2}
Days == {1, 29}

\* the valid timestamps tried by the duration harness
Instants ==
    {Timestamp(y, m, d, tod) :
        y \in MinYear..MaxYear, m \in Months, d \in Days, tod \in 0..MaxTod}

\* CapitalGain(Buy(bts, 1, -1), Sell(sts, -1, 10)).duration for the valid
\* timestamps in range
InitDuration ==
    /\ MatcherIdle
    /\ \E bts \in Instants : \E sts \in Instants :
         /\ ValidDate(bts.year, bts.month, bts.day)
         /\ ValidDate(sts.year, sts.month, sts.day)
         /\ call = [op |-> "duration",
                    gain |-> CapitalGain(
                        Transaction("Buy", bts, 1, -UnitsPerUsd, FALSE),
                        Transaction("Sell", sts, -1, 10 * UnitsPerUsd, FALSE))]
    /\ ret = <<>>

CallDuration ==
    /\ call.op = "duration"
    /\ ret = <<>>
    /\ ret' = <<duration(call.gain)>>
    /\ UNCHANGED <<matcher_vars, call, tab_vars>>

NextDuration == CallDuration

SpecDuration == InitDuration /\ [][NextDuration]_vars

\* ---------------------------------------------------------------- tabulate
\* CapitalGain.gain
gain(g) == g.sell.usd + g.buy.usd

\* the sign of a zero gain: a sum of Decimals is a negative zero when both
\* of its terms are
gain_neg_zero(g) ==
    /\ gain(g) = 0
    /\ g.sell.usd = 0 /\ g.sell.usd_neg_zero
    /\ g.buy.usd = 0 /\ g.buy.usd_neg_zero

\* a number below 100 as two digits
Pad2(n) == IF n < 10 THEN "0" \o ToString(n) ELSE ToString(n)

\* timestamp.strftime("%m/%d/%Y") for a year of four digits
strftime(ts) ==
    Pad2(ts.month) \o "/" \o Pad2(ts.day) \o "/" \o ToString(ts.year)

\* n / d for n >= 0 and d > 0 rounded to the nearest integer, a tie going to
\* the even one (ROUND_HALF_EVEN, the rounding of the decimal context)
RoundHalfEven(n, d) ==
    LET q == n \div d
        r == n % d
    IN  IF 2 * r < d THEN q
        ELSE IF 2 * r > d THEN q + 1
        ELSE IF q % 2 = 0 THEN q ELSE q + 1

\* usd units in one cent
UnitsPerCent == UnitsPerUsd \div 100

\* f"{usd:.2f}" for usd in units: the sign is that of usd also when the
\* rounded amount is zero, and when usd is a negative zero
Format2f(u, neg_zero) ==
    LET cents == RoundHalfEven(Abs(u), UnitsPerCent)
    IN  (IF SignBit(u, neg_zero) THEN "-" ELSE "")
            \o ToString(cents \div 100) \o "." \o Pad2(cents % 100)

\* f"{btc:.8f}" for a whole number of BTC
Format8f(b) ==
    (IF b < 0 THEN "-" ELSE "") \o ToString(Abs(b)) \o ".00000000"

\* lines 345-350, 356: the row of a gain
Row(g) ==
    << Format8f(g.buy.btc) \o " BTC",
       strftime(g.buy.timestamp),
       strftime(g.sell.timestamp),
       Format2f(g.sell.usd, g.sell.usd_neg_zero),
       Format2f(Abs(g.buy.usd), FALSE),
       Format2f(gain(g), gain_neg_zero(g)) >>

\* the dict {}: a function of no key
EmptyDict == [y \in {} |-> <<>>]

\* lines 336-339: the table of a call, a dict per duration
NewTable == [Short |-> EmptyDict, Long |-> EmptyDict]

\* dict.get(key): the value, or None
DictGet(d, key) == IF key \in DOMAIN d THEN d[key] ELSE None

\* dict.update({key: value})
DictUpdate(d, key, value) ==
    [k \in DOMAIN d \cup {key} |-> IF k = key THEN value ELSE d[k]]

\* not x, for x a list or None
Falsy(x) == x = None \/ x = <<>>

\* lines 343-357: the table after the row of gain g, of duration dur, is
\* appended to table[dur][year]
AddRow(t, g, dur) ==
    LET year == g.sell.timestamp.year
        d1 == IF Falsy(DictGet(t[dur], year))
              THEN DictUpdate(t[dur], year, <<>>)
              ELSE t[dur]
        d2 == DictUpdate(d1, year, Append(d1[year], Row(g)))
    IN  [t EXCEPT ![dur] = d2]

\* the gains tried by the tabulate harness: offsetting pairs of these Buys
\* and Sells; their usd amounts include halves of a cent and their sell
\* dates two calendar years and a 29 February.  The Buy of zero btc and the
\* Sell of zero btc and negative zero usd make the gain match_capital_gains
\* emits for a lot of zero btc.
TabBuys ==
    { Transaction("Buy", Timestamp(2019, 1, 1, 0), 1, -UnitsPerUsd, FALSE),
      Transaction("Buy", Timestamp(2020, 1, 1, 0), 1,
                  -(UnitsPerCent \div 2), FALSE),
      Transaction("Buy", Timestamp(2021, 1, 1, 0), 2, -50 * UnitsPerUsd,
                  FALSE),
      Transaction("Buy", Timestamp(2020, 6, 1, 0), 0, 0, FALSE) }

TabSells ==
    { Transaction("Sell", Timestamp(2020, 6, 1, 0), -1, 10 * UnitsPerUsd,
                  FALSE),
      Transaction("Sell", Timestamp(2021, 6, 1, 0), -1,
                  UnitsPerCent + UnitsPerCent \div 2, FALSE),
      Transaction("Sell", Timestamp(2020, 2, 29, 0), -1, 10 * UnitsPerUsd,
                  FALSE),
      Transaction("Sell", Timestamp(2021, 6, 1, 0), -2, 25 * UnitsPerUsd,
                  FALSE),
      Transaction("Sell", Timestamp(2021, 1, 1, 0), 0, 0, TRUE) }

TabGains ==
    {CapitalGain(p[1], p[2]) :
        p \in {q \in TabBuys \X TabSells : q[1].btc = -q[2].btc}}

\* tabulate(cap_gains), called twice on one list of at most MaxGains gains
InitTabulate ==
    /\ input = <<>>
    /\ transactions = <<>>
    /\ pc = "call"
    /\ sell = <<>>
    /\ buys = <<>>
    /\ btc = 0
    /\ buy_index = 0
    /\ \E n \in 0..MaxGains : \E f \in [1..n -> TabGains] :
         /\ cap_gains = f
         /\ call = [op |-> "tabulate", cap_gains |-> f]
    /\ outcome = "idle"
    /\ ret = <<>>
    /\ table = <<>>
    /\ gain_no = 0

\* TabulateBegin with the bug of a table that outlives the call
TabulateBegin_shared_table ==
    /\ call.op = "tabulate"
    /\ pc = "call"
    /\ Len(ret) < 2
    /\ table' = (IF table = <<>> THEN NewTable ELSE table)
    /\ gain_no' = 1
    /\ pc' = "for"
    /\ UNCHANGED <<input, transactions, sell, buys, btc, buy_index,
                   cap_gains, outcome, call, ret>>

\* lines 331-341: tabulate is called; the table is created
TabulateBegin ==
    /\ call.op = "tabulate"
    /\ pc = "call"
    /\ Len(ret) < 2
    /\ table' = NewTable
    /\ gain_no' = 1
    /\ pc' = "for"
    /\ UNCHANGED <<input, transactions, sell, buys, btc, buy_index,
                   cap_gains, outcome, call, ret>>

\* lines 341-357: one pass of the for loop; the ValueError of duration
\* leaves tabulate
TabulateRow ==
    /\ pc = "for"
    /\ gain_no <= Len(cap_gains)
    /\ LET g == cap_gains[gain_no]
           dur == duration(g)
       IN  IF dur.raised # None
           THEN /\ ret' = Append(ret, [raised |-> dur.raised,
                                       short |-> None, long |-> None])
                /\ pc' = "call"
                /\ UNCHANGED tab_vars
           ELSE /\ table' = AddRow(table, g, dur.value)
                /\ gain_no' = gain_no + 1
                /\ UNCHANGED <<pc, ret>>
    /\ UNCHANGED <<input, transactions, sell, buys, btc, buy_index,
                   cap_gains, outcome, call>>

\* lines 341, 359: the loop is over; return the two dicts
TabulateReturn ==
    /\ pc = "for"
    /\ gain_no > Len(cap_gains)
    /\ ret' = Append(ret, [raised |-> None,
                           short |-> table[SHORT], long |-> table[LONG]])
    /\ pc' = "call"
    /\ UNCHANGED <<input, transactions, sell, buys, btc, buy_index,
                   cap_gains, outcome, call, tab_vars>>

NextTabulate == TabulateBegin \/ TabulateRow \/ TabulateReturn

SpecTabulate == InitTabulate /\ [][NextTabulate]_vars

\* ------------------------------------------------------------------ sanity
\* every quotient usd / btc the run can form is exact
ExactTx(t) == t.btc = 0 \/ Abs(t.usd) % Abs(t.btc) = 0

ExactAmounts ==
    /\ \A i \in 1..Len(transactions) : ExactTx(transactions[i])
    /\ \A i \in 1..Len(buys) : ExactTx(buys[i])
    /\ \A i \in 1..Len(sell) : ExactTx(sell[i])
    /\ \A i \in 1..Len(cap_gains) :
         ExactTx(cap_gains[i].buy) /\ ExactTx(cap_gains[i].sell)

\* a measure of the work left to a run: every step makes it smaller, and a
\* run that is not over has a step to take
Measure ==
    4 * Len(transactions)
      + (CASE pc = "assert" -> 2
           [] pc = "while" -> 1
           [] pc = "extract" -> (IF btc # 0 THEN 3 ELSE 2)
           [] OTHER -> 0)

StepsDecreaseMeasure ==
    /\ [](call.op = "match_capital_gains" =>
            (Measure >= 0 /\ (pc # "done" => ENABLED <<Next>>_vars)))
    /\ [][call.op = "match_capital_gains" => Measure' < Measure]_vars

\* ------------------------------------------------------------------ claims
\* total disposal volume: sum of |sell.btc| over the Sells of a list
DisposalVolume(l) == -SumBtc(SelectSeq(l, IsSell))

\* total acquisition volume: sum of buy.btc over the Buys of a list
AcquisitionVolume(l) == SumBtc(SelectSeq(l, IsBuy))

\* C1: a run on a list whose disposal volume is greater than or equal to its
\* acquisition volume ends with the oversell error (the AssertionError of
\* match_capital_gains) and with no CapitalGain.
C1_OversellFails ==
    (pc = "done" /\ DisposalVolume(input) >= AcquisitionVolume(input))
        => (outcome = "AssertionError" /\ cap_gains = <<>>)

\* at some Sell that disposes of btc, the disposals up to and including it
\* are not strictly less than the acquisitions before it
PrefixOversold(l) ==
    \E i \in 1..Len(l) :
        /\ IsSell(l[i])
        /\ l[i].btc # 0
        /\ DisposalVolume(SubSeq(l, 1, i)) >= AcquisitionVolume(SubSeq(l, 1, i))

\* C2: a run on a chronological list in which some Sell (of nonzero btc) is
\* not covered by the Buys up to its time fails, also when the Buys of the
\* whole list cover all the Sells.
C2_PrefixOversellFails ==
    (pc = "done" /\ PrefixOversold(input)) => Failed

\* the gains whose Sell fragment carries the timestamp of s, in emitted order
GainsOf(s) ==
    LET FromS(g) == g.sell.timestamp = s.timestamp
    IN  SelectSeq(cap_gains, FromS)

\* the Sell fragments of a sequence of gains
SellsOf(gs) == [i \in 1..Len(gs) |-> gs[i].sell]

\* the fragments of s add up to s in btc; each is a Sell that offsets the
\* buy it is paired with
FragmentsCoverBtc(s) ==
    /\ SumBtc(SellsOf(GainsOf(s))) = s.btc
    /\ \A i \in 1..Len(GainsOf(s)) :
         /\ IsSell(GainsOf(s)[i].sell)
         /\ GainsOf(s)[i].sell.btc = -GainsOf(s)[i].buy.btc

\* the fragments of s add up to s in usd, within the tolerance
FragmentsCoverUsd(s) ==
    Abs(SumUsd(SellsOf(GainsOf(s))) - s.usd) <= DustTol

\* every emitted Sell fragment carries the timestamp of a Sell of the input
FragmentsKeepTimestamp ==
    \A i \in 1..Len(cap_gains) :
        \E j \in 1..Len(input) :
            IsSell(input[j]) /\ input[j].timestamp = cap_gains[i].sell.timestamp

\* C3 as stated: after a successful run the fragments of every Sell of the
\* input add up to it, exactly in btc and within the tolerance in usd, keep
\* its timestamp and follow the matched buys.
C3_FragmentsCoverEverySell ==
    Returned =>
        /\ FragmentsKeepTimestamp
        /\ \A j \in 1..Len(input) :
             IsSell(input[j]) =>
                FragmentsCoverBtc(input[j]) /\ FragmentsCoverUsd(input[j])

\* C3 amended: as C3, the usd sum being claimed for the Sells of nonzero btc
\* only (a Sell of zero btc yields no fragment that carries usd).
C3_FragmentsCoverSell ==
    Returned =>
        /\ FragmentsKeepTimestamp
        /\ \A j \in 1..Len(input) :
             IsSell(input[j]) =>
                /\ FragmentsCoverBtc(input[j])
                /\ input[j].btc # 0 => FragmentsCoverUsd(input[j])

\* C3 witness: a successful run cut a Sell into several fragments and lost
\* dust of exactly the tolerance
C3_Witness ==
    /\ Returned
    /\ \E j \in 1..Len(input) :
         /\ IsSell(input[j])
         /\ Len(GainsOf(input[j])) >= 2
         /\ Abs(SumUsd(SellsOf(GainsOf(input[j]))) - input[j].usd) = DustTol

\* the list is in the order of the input (timestamps strictly ascending)
InInputOrder(l) ==
    \A i \in 1..Len(l) : \A j \in 1..Len(l) :
        i < j => Before(l[i].timestamp, l[j].timestamp)

\* t is a Buy of the input, whole or cut down
LotOfInput(t) ==
    \E j \in 1..Len(input) :
        /\ IsBuy(input[j])
        /\ input[j].timestamp = t.timestamp
        /\ t.btc <= input[j].btc

\* C4: after a successful run the list holds the unconsumed acquisition
\* remainder: Buy lots of the input only, in their original order, of total
\* btc bought minus sold; the scenario of the test yields four gains and
\* leaves one Buy of 10 btc / -10 usd.
C4_ListIsRemainder ==
    Returned =>
        /\ \A i \in 1..Len(transactions) :
             IsBuy(transactions[i]) /\ LotOfInput(transactions[i])
        /\ InInputOrder(transactions)
        /\ SumBtc(transactions)
             = AcquisitionVolume(input) - DisposalVolume(input)
        /\ input = TestScenario =>
             /\ Len(cap_gains) = 4
             /\ transactions =
                  <<Transaction("Buy", Calendar[1], 10, -10 * UnitsPerUsd, FALSE)>>

\* C5: every emitted CapitalGain pairs a Buy fragment and a Sell fragment of
\* exactly offsetting btc.
C5_OffsettingQuantities ==
    \A i \in 1..Len(cap_gains) :
        cap_gains[i].buy.btc = -cap_gains[i].sell.btc

\* C5 witness: a successful run emitted two gains of different size for one
\* Sell
C5_Witness ==
    /\ Returned
    /\ \E i \in 1..Len(cap_gains) : \E j \in 1..Len(cap_gains) :
         /\ i < j
         /\ cap_gains[i].sell.timestamp = cap_gains[j].sell.timestamp
         /\ cap_gains[i].buy.btc # cap_gains[j].buy.btc
         /\ cap_gains[i].buy.btc > 0

\* the split harness: the split magnitude x of the call, |split_btc| with
\* the sign of the class of t taken off
Magnitude == IF IsBuy(call.t) THEN call.split_btc ELSE -call.split_btc

\* the call of the split harness returned or raised
SplitDone == call.op = "split" /\ ret # <<>>

\* 0 < x <= |t.btc|
ValidSplit == 0 < Magnitude /\ Magnitude <= Abs(call.t.btc)

\* C6: for a valid split magnitude, split returns two transactions of the
\* class and timestamp of t whose btc add up to t.btc exactly and whose usd
\* add up to t.usd within the tolerance.
C6_SplitConserves ==
    (SplitDone /\ ValidSplit) =>
        /\ ret[1].raised = None
        /\ Len(ret[1].frags) = 2
        /\ \A i \in 1..2 :
             /\ ret[1].frags[i].kind = call.t.kind
             /\ ret[1].frags[i].timestamp = call.t.timestamp
        /\ ret[1].frags[1].btc + ret[1].frags[2].btc = call.t.btc
        /\ Abs(ret[1].frags[1].usd + ret[1].frags[2].usd - call.t.usd)
             <= DustTol

\* C6 witness: a valid split below |t.btc| whose residual usd was snapped to
\* zero, so that the usd of the two results do not add up to t.usd
C6_Witness ==
    /\ SplitDone /\ ValidSplit
    /\ Magnitude < Abs(call.t.btc)
    /\ ret[1].raised = None
    /\ ret[1].frags[1].usd + ret[1].frags[2].usd # call.t.usd

\* two evaluations of price end alike: the same exception, or equal values
\* (Decimal == takes no account of the sign of a zero)
SamePrice(p, q) == p.raised = q.raised /\ p.value = q.value

\* C7 as stated: for a valid split magnitude both results have the unit
\* price of t.
C7_SplitKeepsPrice ==
    (SplitDone /\ ValidSplit) =>
        /\ ret[1].raised = None
        /\ SamePrice(price(ret[1].frags[1]), price(call.t))
        /\ SamePrice(price(ret[1].frags[2]), price(call.t))

\* C7 amended: for a valid split magnitude the first result has the unit
\* price of t; the remainder has it when x < |t.btc| and the residual usd
\* exceeds the tolerance; a residual within the tolerance leaves the
\* remainder a price of 0, and for x = |t.btc| the remainder has zero btc
\* and evaluating its price raises.
C7_SplitKeepsPriceOfPart ==
    (SplitDone /\ ValidSplit) =>
        /\ ret[1].raised = None
        /\ SamePrice(price(ret[1].frags[1]), price(call.t))
        /\ IF Magnitude = Abs(call.t.btc)
           THEN price(ret[1].frags[2]).raised # None
           ELSE IF Abs(call.t.usd - ret[1].frags[1].usd) <= DustTol
           THEN SamePrice(price(ret[1].frags[2]),
                          [raised |-> None, value |-> 0])
           ELSE SamePrice(price(ret[1].frags[2]), price(call.t))

\* C7 witness: a valid split below |t.btc| of a transaction of nonzero price
\* whose remainder kept its usd and has the price of t
C7_Witness ==
    /\ SplitDone /\ ValidSplit
    /\ Magnitude < Abs(call.t.btc)
    /\ ret[1].raised = None
    /\ ret[1].frags[2].usd # 0
    /\ SamePrice(price(ret[1].frags[2]), price(call.t))
    /\ SamePrice(price(ret[1].frags[1]), price(call.t))

\* C8 as stated: split fails and returns no fragments whenever x <= 0 or
\* x > |t.btc|.
C8_SplitRejectsOutOfDomain ==
    (SplitDone /\ (Magnitude <= 0 \/ Magnitude > Abs(call.t.btc))) =>
        ret[1].raised # None /\ ret[1].frags = <<>>

\* the field a validation message names
FieldNamed(msg) ==
    IF msg \in {"BTC value must be positive for a buy",
                "BTC value must be negative for a sell"} THEN "BTC"
    ELSE IF msg \in {"USD value must be negative for a buy",
                     "USD value must be positive for a sell"} THEN "USD"
    ELSE None

\* the call of the constructor harness returned or raised
ConstructDone == call.op \in {"Buy", "Sell"} /\ ret # <<>>

\* the sign of c.btc, and of c.usd, is the one the class of c allows
BtcSignOk(c) == IF c.op = "Buy" THEN c.btc >= 0 ELSE c.btc <= 0
UsdSignOk(c) == IF c.op = "Buy" THEN c.usd <= 0 ELSE c.usd >= 0

\* C9: constructing a Buy succeeds exactly when btc >= 0 and usd <= 0, a
\* Sell exactly when btc <= 0 and usd >= 0; the ValueError raised otherwise
\* names BTC when the sign of btc is wrong and USD when only that of usd is.
C9_ConstructionValidates ==
    ConstructDone =>
        /\ ret[1].raised = None <=> (BtcSignOk(call) /\ UsdSignOk(call))
        /\ ret[1].raised = None =>
             ret[1].tx = <<Transaction(call.op, call.timestamp,
                                       call.btc, call.usd, FALSE)>>
        /\ ret[1].raised # None =>
             /\ ret[1].raised = "ValueError"
             /\ ret[1].tx = <<>>
             /\ FieldNamed(ret[1].msg)
                  = (IF BtcSignOk(call) THEN "USD" ELSE "BTC")

\* C9 witness: a Sell of positive btc and negative usd was refused with the
\* message that names BTC
C9_Witness ==
    /\ ConstructDone
    /\ call.op = "Sell" /\ call.btc > 0 /\ call.usd < 0
    /\ ret[1].raised = "ValueError"
    /\ FieldNamed(ret[1].msg) = "BTC"

\* the call of the duration harness returned or raised
DurationDone == call.op = "duration" /\ ret # <<>>

\* the sell timestamp of the call with its year decremented by one
ShiftedSell ==
    Timestamp(call.gain.sell.timestamp.year - 1,
              call.gain.sell.timestamp.month,
              call.gain.sell.timestamp.day,
              call.gain.sell.timestamp.tod)

\* C10: duration is LONG exactly when the buy timestamp is strictly earlier
\* than the sell timestamp with its year decremented by one, and SHORT
\* otherwise.
C10_DurationRule ==
    DurationDone =>
        /\ ret[1].raised = None
        /\ ret[1].value =
             (IF Before(call.gain.buy.timestamp, ShiftedSell)
              THEN LONG ELSE SHORT)

\* the gains of the call that belong to bucket dur and sell year y, in input
\* order
GroupOf(dur, y) ==
    LET InGroup(g) ==
            /\ duration(g) = [raised |-> None, value |-> dur]
            /\ g.sell.timestamp.year = y
    IN  SelectSeq(call.cap_gains, InGroup)

\* the mapping d holds, for every year with a gain of bucket dur, the rows of
\* those gains in input order, and holds no other year
MappingGroups(d, dur) ==
    /\ DOMAIN d =
         {call.cap_gains[i].sell.timestamp.year :
             i \in {j \in 1..Len(call.cap_gains) :
                      duration(call.cap_gains[j])
                          = [raised |-> None, value |-> dur]}}
    /\ \A y \in DOMAIN d :
         d[y] = [i \in 1..Len(GroupOf(dur, y)) |-> Row(GroupOf(dur, y)[i])]

\* a call of the tabulate harness returned or raised
TabulateDone == call.op = "tabulate" /\ pc = "call" /\ ret # <<>>

\* the grouping of C11 for the calls of tabulate that return
TabulateGroupsWhenReturned ==
    \A k \in 1..Len(ret) :
        (call.op = "tabulate" /\ ret[k].raised = None) =>
            /\ MappingGroups(ret[k].short, SHORT)
            /\ MappingGroups(ret[k].long, LONG)

\* C11: tabulate returns the two mappings in which every gain of its input
\* has its row in exactly one list, that of the sell's calendar year in the
\* mapping of the gain's duration; the rows of a list are in input order and
\* a year without a gain of the bucket is no key of the mapping.
C11_TabulateGroups ==
    TabulateDone =>
        \A k \in 1..Len(ret) :
            /\ ret[k].raised = None
            /\ MappingGroups(ret[k].short, SHORT)
            /\ MappingGroups(ret[k].long, LONG)

\* the lot selection strategies of the specification
Strategies == {"FIFO", "LIFO", "HIFO", "LOFO"}

\* lot a has a unit cost |usd| / btc at least that of lot b (lots of
\* positive btc)
CostsAtLeast(a, b) == Abs(a.usd) * b.btc >= Abs(b.usd) * a.btc

\* under the strategy, lot a is consumed no later than lot b (the unit cost
\* is compared for lots of positive btc only: a lot of zero btc has none)
ConsumedFirst(strategy, a, b) ==
    CASE strategy = "FIFO" -> ~Before(b.timestamp, a.timestamp)
      [] strategy = "LIFO" -> ~Before(a.timestamp, b.timestamp)
      [] strategy = "HIFO" -> (a.btc > 0 /\ b.btc > 0) => CostsAtLeast(a, b)
      [] strategy = "LOFO" -> (a.btc > 0 /\ b.btc > 0) => CostsAtLeast(b, a)

\* the pool when extract_sell is about to take a lot for the Sell in hand:
\* the positions of the Buys of the list that are not later than that Sell
PoolOf(txs, s) ==
    {j \in 1..Len(txs) :
        IsBuy(txs[j]) /\ ~Before(s.timestamp, txs[j].timestamp)}

\* the position of the list that the pass of extract_sell now due pops
ConsumedAt == NormIndex(buy_index, Len(transactions)) + 1

\* C12: whichever strategy is selected, whenever extract_sell consumes a
\* lot, whole or in part, the lot is a lot of the pool of Buys not yet
\* consumed and is first among them in the order of the strategy: none is
\* earlier under first-in-first-out, none later under last-in-first-out,
\* none of higher |price| under highest-cost-first-out and none of lower
\* |price| under lowest-cost-first-out.
C12_StrategyOrder ==
    [][(pc = "extract" /\ Len(buys') = Len(buys) + 1) =>
         \A strategy \in Strategies :
            /\ ConsumedAt \in PoolOf(transactions, sell[1])
            /\ \A j \in PoolOf(transactions, sell[1]) :
                 ConsumedFirst(strategy, transactions[ConsumedAt],
                               transactions[j])
      ]_vars

\* C13: a run of match_capital_gains that fails, whatever the error, leaves
\* the caller's transaction list exactly as it was passed in.
C13_FailureLeavesList ==
    Failed => transactions = input

\* C14: the gains are emitted Sell by Sell in the order of the Sells in the
\* chronological input: every step that adds gains appends, after all the
\* gains emitted so far, one gain per lot consumed for the Sell in hand, in
\* the order in which the lots were consumed, each carrying the timestamp of
\* that Sell, which is later than the Sell of every gain emitted before.
C14_GroupedInOrder ==
    [][cap_gains' # cap_gains =>
         /\ Len(cap_gains') = Len(cap_gains) + Len(buys)
         /\ SubSeq(cap_gains', 1, Len(cap_gains)) = cap_gains
         /\ \E j \in 1..Len(input) : input[j] = sell[1]
         /\ \A i \in 1..Len(buys) :
              /\ cap_gains'[Len(cap_gains) + i].buy = buys[i]
              /\ cap_gains'[Len(cap_gains) + i].sell.timestamp
                   = sell[1].timestamp
         /\ \A k \in 1..Len(cap_gains) :
              Before(cap_gains[k].sell.timestamp, sell[1].timestamp)
      ]_vars

\* C14 witness: a run returned gains of two Sells, two of them for one Sell
\* from lots of different dates
C14_Witness ==
    /\ Returned
    /\ \E i \in 1..Len(cap_gains) : \E j \in 1..Len(cap_gains) :
         \E k \in 1..Len(cap_gains) :
            /\ i < j
            /\ cap_gains[i].sell.timestamp = cap_gains[j].sell.timestamp
            /\ cap_gains[i].buy.timestamp # cap_gains[j].buy.timestamp
            /\ cap_gains[k].sell.timestamp # cap_gains[i].sell.timestamp

\* C15: a second run of tabulate on the same list ends exactly as the first
\* (the same pair of mappings, or the same error), and at every point of
\* both runs the list and its gains are as they were passed in.
C15_TabulateIdempotent ==
    call.op = "tabulate" =>
        /\ cap_gains = call.cap_gains
        /\ Len(ret) = 2 => ret[2] = ret[1]

\* C15 witness: both runs returned, with rows in both mappings and a list of
\* two rows or more
C15_Witness ==
    /\ call.op = "tabulate"
    /\ Len(ret) = 2
    /\ ret[1].raised = None
    /\ DOMAIN ret[2].short # {}
    /\ \E y \in DOMAIN ret[2].long : Len(ret[2].long[y]) >= 2

\* the position (from 1) of the first Sell of the input
FirstSellAt == next_sell_index(input) + 1

\* the transactions of the input before and after its first Sell
BeforeFirstSell == SubSeq(input, 1, FirstSellAt - 1)
AfterFirstSell == SubSeq(input, FirstSellAt + 1, Len(input))

\* the first call of extract_sell of the run is under way or has returned,
\* and the Buys before its Sell cover the Sell
FirstExtractCovered ==
    /\ call.op = "match_capital_gains"
    /\ has_sell(input)
    /\ sell = <<input[FirstSellAt]>>
    /\ SumBtc(BeforeFirstSell) >= -input[FirstSellAt].btc

\* buys and the list are what the backward walk from the Sell leaves when
\* it takes whole the lots after position j of those before the Sell and,
\* if btc is still needed, a part of the lot at position j
WalkedBackTo(j) ==
    LET pre == BeforeFirstSell
        n == Len(pre)
        need == -input[FirstSellAt].btc
        whole == [m \in 1..(n - j) |-> pre[n + 1 - m]]
        rest == need - SumBtc(whole)
    IN  /\ \A m \in 1..(n - j) :
             whole[m].btc <= need - SumBtc(SubSeq(whole, 1, m - 1))
        /\ \/ /\ rest = 0
              /\ buys = whole
              /\ transactions = SubSeq(pre, 1, j) \o AfterFirstSell
           \/ /\ rest > 0 /\ j >= 1 /\ rest < pre[j].btc
              /\ Len(buys) = n - j + 1
              /\ SubSeq(buys, 1, n - j) = whole
              /\ IsBuy(buys[n - j + 1])
              /\ buys[n - j + 1].timestamp = pre[j].timestamp
              /\ buys[n - j + 1].btc = rest
              /\ Len(transactions) = j + Len(AfterFirstSell)
              /\ SubSeq(transactions, 1, j - 1) = SubSeq(pre, 1, j - 1)
              /\ IsBuy(transactions[j])
              /\ transactions[j].timestamp = pre[j].timestamp
              /\ transactions[j].btc = pre[j].btc - rest
              /\ Abs(buys[n - j + 1].usd + transactions[j].usd - pre[j].usd)
                   <= DustTol
              /\ SubSeq(transactions, j + 1, Len(transactions))
                   = AfterFirstSell

\* C16: extract_sell called for a Sell that the Buys before it cover does
\* not fail; it returns that Sell and the lots met walking backward from the
\* Sell, whole while their btc <= needed, the last one cut to the btc still
\* needed with its remainder left at its position; the btc of the returned
\* lots add up to |sell.btc| and the transactions after the Sell are as
\* they were.
C16_ExtractWalksBack ==
    FirstExtractCovered =>
        /\ btc # 0 => (pc = "extract" /\ outcome = "running")
        /\ (pc = "extract" /\ btc = 0) =>
             /\ SumBtc(buys) = -sell[1].btc
             /\ \E j \in 0..Len(BeforeFirstSell) : WalkedBackTo(j)

\* C16 witness: extract_sell has taken one lot whole and a part of the lot
\* before it, and transactions stood after the Sell
C16_Witness ==
    /\ FirstExtractCovered
    /\ pc = "extract" /\ btc = 0
    /\ Len(buys) = 2
    /\ buys[1] = input[FirstSellAt - 1]
    /\ buys[2].btc < input[FirstSellAt - 2].btc
    /\ AfterFirstSell # <<>>

\* the split harness: the residual t.usd - part.usd of a call that returned
Residual == call.t.usd - ret[1].frags[1].usd

\* C17 as stated: the usd of the remainder is zero when the magnitude of the
\* residual is smaller than the tolerance, and is the residual when the
\* magnitude is the tolerance or more.
C17_SnapsBelowTolerance ==
    (SplitDone /\ ret[1].raised = None) =>
        ret[1].frags[2].usd
            = (IF Abs(Residual) < DustTol THEN 0 ELSE Residual)

\* C17 amended: the usd of the remainder is zero when the magnitude of the
\* residual is the tolerance or less, and is the residual when the magnitude
\* is more than the tolerance.
C17_SnapsWithinTolerance ==
    (SplitDone /\ ret[1].raised = None) =>
        ret[1].frags[2].usd
            = (IF Abs(Residual) <= DustTol THEN 0 ELSE Residual)

\* C17 witness: a split left a remainder of nonzero btc whose residual had
\* exactly the magnitude of the tolerance, and its usd is zero
C17_Witness ==
    /\ SplitDone /\ ret[1].raised = None
    /\ ret[1].frags[2].btc # 0
    /\ Abs(Residual) = DustTol
    /\ ret[1].frags[2].usd = 0

\* C18: every run of match_capital_gains comes to an end, by returning or by
\* raising an error.
C18_Terminates == <>(pc = "done")

\* C18 witness: a run on a list with a lot of zero btc and a Sell that the
\* Buys before it do not cover has come to its end
C18_Witness ==
    /\ call.op = "match_capital_gains"
    /\ pc = "done"
    /\ PrefixOversold(input)
    /\ \E i \in 1..Len(input) : IsBuy(input[i]) /\ input[i].btc = 0

\* C19: no gain of a list returned by match_capital_gains pairs a Sell with
\* a Buy acquired after it: the timestamp of the buy is not later than that
\* of the sell.
C19_NoLaterAcquisition ==
    Returned =>
        \A i \in 1..Len(cap_gains) :
            /\ IsBuy(cap_gains[i].buy)
            /\ ~Before(cap_gains[i].sell.timestamp,
                       cap_gains[i].buy.timestamp)

\* C20: for every gain whose buy and sell timestamps are valid calendar
\* instants, a sell dated 29 February included, duration raises nothing and
\* returns SHORT or LONG.
C20_DurationTotal ==
    DurationDone =>
        /\ ret[1].raised = None
        /\ ret[1].value \in {SHORT, LONG}

\* the Buy fragments of a sequence of gains
BuysOf(gs) == [i \in 1..Len(gs) |-> gs[i].buy]

\* the fragments of the lot: those consumed in the emitted gains, then what
\* the list still holds of it (a fragment carries the timestamp of its lot)
FragmentsOfLot(lot) ==
    LET OfLot(t) == IsBuy(t) /\ t.timestamp = lot.timestamp
    IN  SelectSeq(BuysOf(cap_gains), OfLot) \o SelectSeq(transactions, OfLot)

\* C21: after a successful run, for every Buy lot of the input the btc of its
\* fragments (those consumed in the gains and the remainder left in the list)
\* add up to the btc of the lot exactly, and their usd to the usd of the lot
\* up to the tolerance of 0.0001, however many times the lot was cut.
C21_CostBasisConserved ==
    Returned =>
        \A j \in 1..Len(input) :
            IsBuy(input[j]) =>
                /\ SumBtc(FragmentsOfLot(input[j])) = input[j].btc
                /\ Abs(SumUsd(FragmentsOfLot(input[j])) - input[j].usd)
                     <= DustTol

\* C21 witness: a successful run cut one lot twice, for two Sells, left a
\* remainder of it in the list and lost dust of exactly the tolerance
C21_Witness ==
    /\ Returned
    /\ \E j \in 1..Len(input) :
         /\ IsBuy(input[j])
         /\ Len(FragmentsOfLot(input[j])) >= 3
         /\ \E i \in 1..Len(transactions) :
              /\ transactions[i].timestamp = input[j].timestamp
              /\ transactions[i].btc > 0
         /\ \E a \in 1..Len(cap_gains) : \E b \in 1..Len(cap_gains) :
              /\ cap_gains[a].buy.timestamp = input[j].timestamp
              /\ cap_gains[b].buy.timestamp = input[j].timestamp
              /\ cap_gains[a].sell.timestamp # cap_gains[b].sell.timestamp
         /\ Abs(SumUsd(FragmentsOfLot(input[j])) - input[j].usd) = DustTol

\* C22: a run of match_capital_gains on a list without any Sell (Buys only,
\* or no transaction at all) returns an empty list of gains without error
\* and leaves the list as it was.
C22_NoSellReturnsEmpty ==
    (pc = "done" /\ call.op = "match_capital_gains" /\ ~has_sell(input)) =>
        /\ Returned
        /\ cap_gains = <<>>
        /\ transactions = input

====
